---- MODULE Spec2Model ----
(***************************************************************************)
(* Smart Task Management API (src/main.py): the task store, the create /   *)
(* update / delete handlers and the suggestion engine.                     *)
(*                                                                         *)
(* Text.  A Python str is a sequence of code points.  A code point is a    *)
(* one-character TLA+ string; the two non-ASCII code points the model      *)
(* knows are written by their names, "U+017F" (LATIN SMALL LETTER LONG S)  *)
(* and "U+00DF" (LATIN SMALL LETTER SHARP S).                              *)
(*                                                                         *)
(* Optional values.  None is the empty sequence and a present value v is   *)
(* the one-element sequence <<v>>.                                         *)
(***************************************************************************)
EXTENDS Integers, Sequences, FiniteSets

VARIABLES tasks, now, pc, local, seen, last, text, keywords

vars == <<tasks, now, pc, local, seen, last, text, keywords>>

(***************************************************************************)
(* Python str, re                                                          *)
(***************************************************************************)
None == <<>>

Some(v) == <<v>>

LowerAlpha ==
    <<"a","b","c","d","e","f","g","h","i","j","k","l","m",
      "n","o","p","q","r","s","t","u","v","w","x","y","z">>

UpperAlpha ==
    <<"A","B","C","D","E","F","G","H","I","J","K","L","M",
      "N","O","P","Q","R","S","T","U","V","W","X","Y","Z">>

Digits == {"0","1","2","3","4","5","6","7","8","9"}

LongS == "U+017F"

SharpS == "U+00DF"

Range(s) == {s[i] : i \in 1..Len(s)}

LowerSet == Range(LowerAlpha)

UpperSet == Range(UpperAlpha)

\* str.lower() of one code point.  LongS and SharpS are lowercase already.
LowerOf ==
    [c \in UpperSet |-> LowerAlpha[CHOOSE i \in 1..Len(UpperAlpha) : UpperAlpha[i] = c]]

LowerChar(c) == IF c \in UpperSet THEN LowerOf[c] ELSE c

\* The titlecase mapping of one code point, as str.capitalize() applies it
\* to the first code point: it may give more than one code point.
UpperOf ==
    [c \in LowerSet |-> UpperAlpha[CHOOSE i \in 1..Len(LowerAlpha) : LowerAlpha[i] = c]]

TitleChar(c) ==
    IF c \in LowerSet THEN <<UpperOf[c]>>
    ELSE IF c = LongS THEN <<"S">>
    ELSE IF c = SharpS THEN <<"S", "s">>
    ELSE <<c>>

\* \w of a str pattern: alphanumeric code points and the underscore.
WordChars == LowerSet \cup UpperSet \cup Digits \cup {"_", LongS, SharpS}

IsWord(c) == c \in WordChars

\* The ASCII whitespace: space, \t, \n, \r, \f, and the code points that
\* have no escape in a string, written by their names: the vertical tab
\* and the four separators U+001C to U+001F.
Whitespace ==
    {" ", "\t", "\n", "\r", "\f",
     "U+000B", "U+001C", "U+001D", "U+001E", "U+001F"}

\* \s of a str pattern, and what str.split() splits on.
IsSpace(c) == c \in Whitespace

lower(s) == [i \in 1..Len(s) |-> LowerChar(s[i])]

\* re_sub without the substitution: punctuation stays in the text.
re_sub_nothing(s) == s

\* re.sub(r'[^\w\s]', ' ', s)
re_sub(s) ==
    [i \in 1..Len(s) |-> IF IsWord(s[i]) \/ IsSpace(s[i]) THEN s[i] ELSE " "]

\* str.split(): the maximal runs of non-whitespace, left to right.
\* cur is the run being read, acc the runs already closed.
RECURSIVE SplitFrom(_, _, _, _)
SplitFrom(s, i, cur, acc) ==
    IF i > Len(s) THEN (IF cur = <<>> THEN acc ELSE Append(acc, cur))
    ELSE IF IsSpace(s[i])
         THEN SplitFrom(s, i + 1, <<>>,
                        IF cur = <<>> THEN acc ELSE Append(acc, cur))
         ELSE SplitFrom(s, i + 1, Append(cur, s[i]), acc)

split(s) == SplitFrom(s, 1, <<>>, <<>>)

\* str.split(sep) for a one-code-point separator: empty parts are kept.
RECURSIVE SplitSepFrom(_, _, _, _, _)
SplitSepFrom(s, sep, i, cur, acc) ==
    IF i > Len(s) THEN Append(acc, cur)
    ELSE IF s[i] = sep
         THEN SplitSepFrom(s, sep, i + 1, <<>>, Append(acc, cur))
         ELSE SplitSepFrom(s, sep, i + 1, Append(cur, s[i]), acc)

split_sep(s, sep) == SplitSepFrom(s, sep, 1, <<>>, <<>>)

\* str.capitalize(): first code point titlecased, the rest lowercased.
capitalize(s) ==
    IF s = <<>> THEN <<>> ELSE TitleChar(s[1]) \o lower(Tail(s))

\* sep.join(parts)
RECURSIVE join(_, _)
join(sep, parts) ==
    IF parts = <<>> THEN <<>>
    ELSE IF Len(parts) = 1 THEN parts[1]
    ELSE parts[1] \o sep \o join(sep, Tail(parts))

\* template.format(arg): the replacement field {} of the template is
\* replaced by arg; the text of arg is not parsed.
RECURSIVE FormatFrom(_, _, _)
FormatFrom(template, arg, i) ==
    IF i > Len(template) THEN <<>>
    ELSE IF i < Len(template) /\ template[i] = "{" /\ template[i + 1] = "}"
         THEN arg \o FormatFrom(template, arg, i + 2)
         ELSE <<template[i]>> \o FormatFrom(template, arg, i + 1)

format(template, arg) == FormatFrom(template, arg, 1)

(***************************************************************************)
(* TaskSuggestionEngine.extract_keywords                                   *)
(***************************************************************************)
stop_words ==
    {<<"t","h","e">>, <<"a","n","d">>, <<"f","o","r">>, <<"w","i","t","h">>,
     <<"a","r","e">>, <<"w","a","s">>, <<"w","e","r","e">>,
     <<"b","e","e","n">>, <<"h","a","v","e">>, <<"h","a","s">>,
     <<"h","a","d">>, <<"d","o","e","s">>, <<"d","i","d">>,
     <<"w","i","l","l">>, <<"w","o","u","l","d">>, <<"c","o","u","l","d">>,
     <<"s","h","o","u","l","d">>}

MinKeywordLen == 2

IsKeyword(word) == Len(word) > MinKeywordLen /\ word \notin stop_words

\* FilterKeywords that keeps the first occurrence of a keyword only.
RECURSIVE FilterKeywordsDedup(_)
FilterKeywordsDedup(words) ==
    IF words = <<>> THEN <<>>
    ELSE LET before == FilterKeywordsDedup(SubSeq(words, 1, Len(words) - 1))
             word == words[Len(words)]
         IN  IF IsKeyword(word) /\ word \notin Range(before)
             THEN Append(before, word)
             ELSE before

\* [word for word in words if len(word) > 2 and word not in stop_words]
RECURSIVE FilterKeywords(_)
FilterKeywords(words) ==
    IF words = <<>> THEN <<>>
    ELSE (IF IsKeyword(Head(words)) THEN <<Head(words)>> ELSE <<>>)
         \o FilterKeywords(Tail(words))

extract_keywords(t) ==
    IF t = <<>> THEN <<>>
    ELSE FilterKeywords(split(re_sub(lower(t))))

(***************************************************************************)
(* TaskSuggestionEngine.generate_suggestions                               *)
(***************************************************************************)
suggestion_templates ==
    <<<<"F","o","l","l","o","w","-","u","p"," ","o","n"," ","{","}">>,
      <<"F","i","n","a","l","i","z","e"," ","{","}">>,
      <<"P","l","a","n"," ","n","e","x","t"," ","s","t","e","p","s"," ",
        "f","o","r"," ","{","}">>,
      <<"S","c","h","e","d","u","l","e"," ","m","e","e","t","i","n","g"," ",
        "f","o","r"," ","{","}">>,
      <<"P","r","e","p","a","r","e"," ","r","e","p","o","r","t"," ",
        "r","e","g","a","r","d","i","n","g"," ","{","}">>,
      <<"S","t","a","r","t"," ","w","o","r","k","i","n","g"," ","o","n"," ",
        "{","}">>>>

MostCommonLimit == 5

QuotaPerKeyword == 3

\* for t in texts: all_keywords.extend(self.extract_keywords(t))
RECURSIVE ExtendAll(_, _)
ExtendAll(all_keywords, texts) ==
    IF texts = <<>> THEN all_keywords
    ELSE ExtendAll(all_keywords \o extract_keywords(Head(texts)), Tail(texts))

\* Counter(all_keywords): one [key, count] entry per distinct keyword, in
\* the order of first insertion (a dict keeps insertion order).
RECURSIVE CounterFrom(_, _)
CounterFrom(all_keywords, counts) ==
    IF all_keywords = <<>> THEN counts
    ELSE LET k == Head(all_keywords)
             hit == {i \in 1..Len(counts) : counts[i].key = k}
         IN  CounterFrom(
                 Tail(all_keywords),
                 IF hit = {}
                 THEN Append(counts, [key |-> k, count |-> 1])
                 ELSE [i \in 1..Len(counts) |->
                          IF i \in hit
                          THEN [counts[i] EXCEPT !.count = @ + 1]
                          ELSE counts[i]])

Counter(all_keywords) == CounterFrom(all_keywords, <<>>)

\* InsertByCount with ties resolved the other way: e goes in front of the
\* entries of equal count.
InsertByCountUnstable(sorted, e) ==
    LET ahead == {i \in 1..Len(sorted) : sorted[i].count > e.count}
        n == Cardinality(ahead)
    IN  SubSeq(sorted, 1, n) \o <<e>> \o SubSeq(sorted, n + 1, Len(sorted))

\* One step of the stable descending sort: e goes behind every entry whose
\* count is not smaller, so entries of equal count keep their order.
InsertByCount(sorted, e) ==
    LET ahead == {i \in 1..Len(sorted) : sorted[i].count >= e.count}
        n == Cardinality(ahead)
    IN  SubSeq(sorted, 1, n) \o <<e>> \o SubSeq(sorted, n + 1, Len(sorted))

RECURSIVE SortByCount(_, _)
SortByCount(items, sorted) ==
    IF items = <<>> THEN sorted
    ELSE SortByCount(Tail(items), InsertByCount(sorted, Head(items)))

\* Counter.most_common(n): sorted(items, key=count, reverse=True)[:n]
most_common(counts, n) ==
    LET sorted == SortByCount(counts, <<>>)
    IN  SubSeq(sorted, 1, IF Len(sorted) < n THEN Len(sorted) ELSE n)

\* " ".join(part.capitalize() for part in keyword.split('-'))
formatted_keyword(keyword) ==
    LET parts == split_sep(keyword, "-")
    IN  join(<<" ">>, [i \in 1..Len(parts) |-> capitalize(parts[i])])

\* IsNewTitle without the membership test.
IsNewTitleAlways(suggested_title, generated_titles) == TRUE

\* The test of line 185 on one candidate title.
IsNewTitle(suggested_title, generated_titles) ==
    suggested_title \notin generated_titles

\* QuotaReached with > for >=.
QuotaReachedLate(suggestions_made_for_this_keyword) ==
    suggestions_made_for_this_keyword > QuotaPerKeyword

\* The test of line 179 that ends the templates of one keyword.
QuotaReached(suggestions_made_for_this_keyword) ==
    suggestions_made_for_this_keyword >= QuotaPerKeyword

\* TemplateLoop with the counter incremented for a skipped template too.
RECURSIVE TemplateLoopCountingSkips(_, _, _)
TemplateLoopCountingSkips(fk, t, st) ==
    IF t > Len(suggestion_templates) \/ st.made >= QuotaPerKeyword THEN st
    ELSE LET suggested_title == format(suggestion_templates[t], fk)
         IN  IF suggested_title \notin st.generated_titles
             THEN TemplateLoopCountingSkips(fk, t + 1,
                      [suggestions |-> Append(st.suggestions, suggested_title),
                       generated_titles |->
                           st.generated_titles \cup {suggested_title},
                       made |-> st.made + 1])
             ELSE TemplateLoopCountingSkips(fk, t + 1,
                      [st EXCEPT !.made = @ + 1])

\* The inner loop over the templates for one keyword, from template t on.
\* st is [suggestions, generated_titles, made]; made is the value of
\* suggestions_made_for_this_keyword.
RECURSIVE TemplateLoop(_, _, _)
TemplateLoop(fk, t, st) ==
    IF t > Len(suggestion_templates) \/ QuotaReached(st.made) THEN st
    ELSE LET suggested_title == format(suggestion_templates[t], fk)
         IN  IF IsNewTitle(suggested_title, st.generated_titles)
             THEN TemplateLoop(fk, t + 1,
                      [suggestions |-> Append(st.suggestions, suggested_title),
                       generated_titles |->
                           st.generated_titles \cup {suggested_title},
                       made |-> st.made + 1])
             ELSE TemplateLoop(fk, t + 1, st)

\* The outer loop over top_keywords, from keyword k on.  acc is
\* [suggestions, generated_titles, made]; here made is the sequence of the
\* final values of suggestions_made_for_this_keyword, one per keyword.
RECURSIVE KeywordLoop(_, _, _)
KeywordLoop(top_keywords, k, acc) ==
    IF k > Len(top_keywords) THEN acc
    ELSE LET r == TemplateLoop(formatted_keyword(top_keywords[k]), 1,
                      [suggestions |-> acc.suggestions,
                       generated_titles |-> acc.generated_titles,
                       made |-> 0])
         IN  KeywordLoop(top_keywords, k + 1,
                 [suggestions |-> r.suggestions,
                  generated_titles |-> r.generated_titles,
                  made |-> Append(acc.made, r.made)])

\* ShortCircuit without line 133.
ShortCircuitNever(all_task_titles) == FALSE

\* Line 133: is the query of the descriptions skipped?
ShortCircuit(all_task_titles) == all_task_titles = <<>>

\* generate_suggestions for the rows its queries give: the values of the
\* locals when it returns.  The descriptions are not looked at when line
\* 133 returns.
generate_suggestions(all_task_titles, all_task_descriptions) ==
    LET all_keywords ==
            ExtendAll(ExtendAll(<<>>, all_task_titles), all_task_descriptions)
        counts == most_common(Counter(all_keywords), MostCommonLimit)
        top_keywords == [i \in 1..Len(counts) |-> counts[i].key]
        r == KeywordLoop(top_keywords, 1,
                 [suggestions |-> <<>>, generated_titles |-> {}, made |-> <<>>])
    IN  IF ShortCircuit(all_task_titles) \/ all_keywords = <<>>
        THEN [all_keywords |-> <<>>, top_keywords |-> <<>>,
              suggestions |-> <<>>, made |-> <<>>]
        ELSE [all_keywords |-> all_keywords, top_keywords |-> top_keywords,
              suggestions |-> r.suggestions, made |-> r.made]

(***************************************************************************)
(* The store: table tasks of tasks.db.  tasks maps the id of each row to   *)
(* its other columns.                                                      *)
(***************************************************************************)
PENDING == "pending"

IN_PROGRESS == "in_progress"

COMPLETED == "completed"

TaskStatus == {PENDING, IN_PROGRESS, COMPLETED}

TitleMaxLength == 200

DescriptionMaxLength == 1000

\* The columns declared nullable=False that a request can set.
NotNullColumns == {"title", "status"}

\* The bounds of the model.
MaxTasks == 1

MaxTime == 1

NumWorkers == 2

MaxRows == 2

MaxLen == 4

MaxWords == 3

\* The server processes.  Each runs one handler at a time (every handler is
\* an async def without an await, so the event loop of a process runs it to
\* its end); the processes share tasks.db and interleave at the statements
\* they send to it.  The Session reads outside a transaction: sqlite3 opens
\* one only in front of INSERT, UPDATE and DELETE.
Workers == 1..NumWorkers

Max(S) == CHOOSE x \in S : \A y \in S : y <= x

\* INTEGER PRIMARY KEY without AUTOINCREMENT: the largest rowid plus one.
NextId(rows) == IF DOMAIN rows = {} THEN 1 ELSE Max(DOMAIN rows) + 1

\* All orders in which a SELECT without ORDER BY can give the rows ids.
QueryOrders(ids) ==
    {o \in [1..Cardinality(ids) -> ids] : \A i \in ids : \E j \in DOMAIN o : o[j] = i}

\* db.query(Task.<column>).filter(Task.<column>.isnot(None)).all(), the
\* rows taken in order o; the values are unwrapped as title_tuple[0] is.
RECURSIVE SelectColumn(_, _, _)
SelectColumn(rows, column, o) ==
    IF o = <<>> THEN <<>>
    ELSE (IF rows[Head(o)][column] # None
          THEN rows[Head(o)][column]
          ELSE <<>>) \o SelectColumn(rows, column, Tail(o))

\* What the suggestion engine can read of a store state.
View(rows) ==
    [i \in DOMAIN rows |->
        [title |-> rows[i].title, description |-> rows[i].description]]

NoLocals == [endpoint |-> "idle"]

NoRows == [i \in {} |-> 0]

\* The request texts and the texts of the stores the engine is run on.
TitleBudgetReport ==
    <<"P","r","e","p","a","r","e"," ","b","u","d","g","e","t"," ",
      "r","e","p","o","r","t">>

TitleBudgetNumbers ==
    <<"R","e","v","i","e","w"," ","b","u","d","g","e","t"," ",
      "n","u","m","b","e","r","s">>

TitleStopWords ==
    <<"t","h","e"," ","a","n","d"," ","h","a","s"," ","h","a","d"," ",
      "a"," ","a","n"," ","i","t">>

TitleLongS ==
    <<"S","a","b","-","U+017F","a","b",":"," ","U+00DF","a","b"," ",
      "s","s","a","b"," ","U+017F","s","a","b","!">>

DescPlan ==
    <<"P","l","a","n"," ","t","h","e"," ","b","u","d","g","e","t"," ",
      "R","E","P","O","R","T",","," ","w","i","t","h"," ",
      "n","u","m","b","e","r","s","!">>

DescFollowUp ==
    <<"F","o","l","l","o","w","-","u","p"," ","r","e","v","i","e","w"," ",
      "f","o","r"," ","Q","3">>

TextRepeated ==
    <<"B","u","d","g","e","t"," ","p","l","a","n",":"," ",
      "b","u","d","g","e","t",","," ","t","h","e"," ",
      "p","l","a","n",";"," ","B","U","D","G","E","T","!">>

(***************************************************************************)
(* Request bodies                                                          *)
(***************************************************************************)
UpdateFields == {"title", "description", "due_date", "status"}

\* validate_due_date of TaskCreate and TaskUpdate at time t: TRUE when no
\* ValueError is raised.
validate_due_date(v, t) == IF v # None THEN ~(v[1] < t) ELSE TRUE

\* TaskCreate: title is required, status is not Optional.
TaskCreateValid(task, t) ==
    /\ task.title # None
    /\ Len(task.title[1]) >= 1
    /\ Len(task.title[1]) <= TitleMaxLength
    /\ task.description # None => Len(task.description[1]) <= DescriptionMaxLength
    /\ validate_due_date(task.due_date, t)
    /\ task.status # None

\* TaskUpdate: every field is Optional, so None passes for each of them.
\* A TaskUpdate is [values, fields_set]: the four attributes, None where
\* the body names none, and the names the body does set.
TaskUpdateValid(task_update, t) ==
    LET v == task_update.values
    IN  /\ v.title # None => /\ Len(v.title[1]) >= 1
                             /\ Len(v.title[1]) <= TitleMaxLength
        /\ v.description # None => Len(v.description[1]) <= DescriptionMaxLength
        /\ validate_due_date(v.due_date, t)

\* model_dump() without exclude_unset: all four fields, None where unset.
model_dump_all(task_update) == task_update.values

\* task_update.model_dump(exclude_unset=True)
model_dump_exclude_unset(task_update) ==
    [f \in task_update.fields_set |-> task_update.values[f]]

\* A TaskUpdate whose body sets the fields of sets to the values of sets.
Body(sets) ==
    [values |-> [f \in UpdateFields |->
                    IF f \in DOMAIN sets THEN sets[f] ELSE None],
     fields_set |-> DOMAIN sets]

\* The bodies sent to the service: a missing title, an empty one, a due
\* date that is in the past once time has passed, and valid ones.
CreateBodies ==
    [title : {None, Some(<<>>), Some(TitleBudgetReport), Some(TitleStopWords)},
     description : {None, Some(DescPlan)},
     due_date : {None, Some(0)},
     status : {Some(PENDING)}]

UpdateBodies ==
    {Body([title |-> Some(<<>>)]),
     Body([title |-> None]),
     Body([description |-> Some(DescPlan)]),
     Body([status |-> Some(COMPLETED)]),
     Body([title |-> Some(TitleStopWords), description |-> None])}

\* Every body over these values, for the runs of update_task alone.
AllUpdateBodies ==
    {Body([f \in fs |-> v[f]]) :
        fs \in SUBSET UpdateFields,
        v \in [title : {None, Some(<<>>), Some(TitleBudgetReport),
                        Some(TitleStopWords)},
               description : {None, Some(DescPlan)},
               due_date : {None, Some(0), Some(MaxTime)},
               status : {None, Some(IN_PROGRESS), Some(COMPLETED)}]}

(***************************************************************************)
(* Handlers                                                                *)
(***************************************************************************)
\* A commit becomes visible to every suggestion call that is between its
\* two queries: seen[w] collects the store states of the call of w.
Observe(rows) ==
    [w \in Workers |->
        IF pc[w] = "suggest_titles_read" THEN seen[w] \cup {View(rows)}
        ELSE seen[w]]

\* The response to a body that TaskCreate or TaskUpdate rejects; the
\* handler is not called.
RequestValidationError(w) ==
    /\ pc[w] = "idle"
    /\ ~(/\ \A task \in CreateBodies : TaskCreateValid(task, now)
         /\ \A task_update \in AllUpdateBodies :
                TaskUpdateValid(task_update, now))
    /\ last' = [endpoint |-> "validation", status_code |-> 422]
    /\ UNCHANGED <<tasks, now, pc, local, seen, text, keywords>>

\* create_task, lines 212-214: INSERT and COMMIT are one transaction.
create_task(w, task) ==
    /\ pc[w] = "idle"
    /\ TaskCreateValid(task, now)
    /\ NextId(tasks) <= MaxTasks
    /\ tasks' = [i \in DOMAIN tasks \cup {NextId(tasks)} |->
                    IF i \in DOMAIN tasks THEN tasks[i]
                    ELSE [title |-> task.title,
                          description |-> task.description,
                          due_date |-> task.due_date,
                          status |-> task.status,
                          creation_date |-> now,
                          modified_date |-> now]]
    /\ pc' = [pc EXCEPT ![w] = "create_refresh"]
    /\ local' = [local EXCEPT ![w] =
                    [endpoint |-> "create_task", id |-> NextId(tasks)]]
    /\ seen' = Observe(tasks')
    /\ UNCHANGED <<now, last, text, keywords>>

\* db.refresh(db_task): a SELECT of the row by its id, after the COMMIT.
\* It raises InvalidRequestError when no row has the id any more, and the
\* request is answered 500.
Refreshed(w, detail) ==
    IF local[w].id \in DOMAIN tasks
    THEN [endpoint |-> local[w].endpoint, status_code |-> 200,
          id |-> local[w].id, detail |-> detail]
    ELSE [endpoint |-> local[w].endpoint, status_code |-> 500,
          id |-> local[w].id, detail |-> "Could not refresh instance"]

\* create_task, lines 215-216: db.refresh() and the answer.
create_refresh(w) ==
    /\ pc[w] = "create_refresh"
    /\ last' = Refreshed(w, "INSERT")
    /\ pc' = [pc EXCEPT ![w] = "idle"]
    /\ local' = [local EXCEPT ![w] = NoLocals]
    /\ UNCHANGED <<tasks, now, seen, text, keywords>>

\* The loaded values of the attributes that setattr replaces: what the
\* Session keeps of db_task to tell which columns have changed.
Loaded(db_task, task_update) ==
    [f \in DOMAIN model_dump_exclude_unset(task_update) |-> db_task[f]]

\* update_task, lines 277-284: the SELECT, and the setattr of every dumped
\* field on the loaded object.
update_task(w, task_id, task_update) ==
    /\ pc[w] = "idle"
    /\ TaskUpdateValid(task_update, now)
    /\ IF task_id \notin DOMAIN tasks
       THEN /\ last' = [endpoint |-> "update_task", status_code |-> 404,
                        id |-> task_id, detail |-> "Task not found"]
            /\ UNCHANGED <<pc, local>>
       ELSE /\ pc' = [pc EXCEPT ![w] = "update_commit"]
            /\ local' = [local EXCEPT ![w] =
                            [endpoint |-> "update_task", id |-> task_id,
                             fields_set |-> task_update.fields_set,
                             loaded |-> Loaded(tasks[task_id], task_update),
                             update_data |->
                                 model_dump_exclude_unset(task_update)]]
            /\ UNCHANGED last
    /\ UNCHANGED <<tasks, now, seen, text, keywords>>

\* The columns of the UPDATE that db.commit() flushes: the attributes set
\* to a value other than the loaded one.  A due date of the request is
\* timezone-aware (validate_due_date) and a loaded one is naive, so the two
\* never compare equal.
ChangedColumns(loaded, update_data) ==
    {f \in DOMAIN update_data :
        \/ update_data[f] # loaded[f]
        \/ f = "due_date" /\ update_data[f] # None}

\* The row after UPDATE tasks SET <changed columns>, modified_date=now().
UpdatedRow(row, update_data, changed, t) ==
    [f \in DOMAIN row |->
        IF f \in changed THEN update_data[f]
        ELSE IF f = "modified_date" THEN t
        ELSE row[f]]

\* update_task, line 286: db.commit().  Nothing is sent when no attribute
\* has changed.  The UPDATE names the row by its id; it fails when the row
\* is gone (StaleDataError) or a NOT NULL column is set to NULL
\* (IntegrityError); the transaction is then rolled back and the request
\* answered 500.
update_commit(w) ==
    /\ pc[w] = "update_commit"
    /\ LET id == local[w].id
           update_data == local[w].update_data
           changed == ChangedColumns(local[w].loaded, update_data)
           Fail(detail) ==
               /\ tasks' = tasks
               /\ last' = [endpoint |-> "update_task", status_code |-> 500,
                           id |-> id, detail |-> detail]
               /\ pc' = [pc EXCEPT ![w] = "idle"]
               /\ local' = [local EXCEPT ![w] = NoLocals]
           Committed(rows, detail) ==
               /\ tasks' = rows
               /\ last' = last
               /\ pc' = [pc EXCEPT ![w] = "update_refresh"]
               /\ local' = [local EXCEPT ![w] =
                               [endpoint |-> "update_task", id |-> id,
                                fields_set |-> local[w].fields_set,
                                detail |-> detail]]
       IN  IF changed = {}
           THEN Committed(tasks, "no UPDATE")
           ELSE IF id \notin DOMAIN tasks
           THEN Fail("row is gone")
           ELSE IF \E f \in changed \cap NotNullColumns : update_data[f] = None
           THEN Fail("IntegrityError")
           ELSE Committed([tasks EXCEPT ![id] =
                              UpdatedRow(tasks[id], update_data, changed, now)],
                          "UPDATE")
    /\ seen' = Observe(tasks')
    /\ UNCHANGED <<now, text, keywords>>

\* update_task, lines 287-288: db.refresh() and the answer.
update_refresh(w) ==
    /\ pc[w] = "update_refresh"
    /\ last' = Refreshed(w, local[w].detail)
    /\ pc' = [pc EXCEPT ![w] = "idle"]
    /\ local' = [local EXCEPT ![w] = NoLocals]
    /\ UNCHANGED <<tasks, now, seen, text, keywords>>

\* delete_task, lines 293-295: the SELECT.
delete_task(w, task_id) ==
    /\ pc[w] = "idle"
    /\ IF task_id \notin DOMAIN tasks
       THEN /\ last' = [endpoint |-> "delete_task", status_code |-> 404,
                        id |-> task_id, detail |-> "Task not found"]
            /\ UNCHANGED <<pc, local>>
       ELSE /\ pc' = [pc EXCEPT ![w] = "delete_commit"]
            /\ local' = [local EXCEPT ![w] =
                            [endpoint |-> "delete_task", id |-> task_id]]
            /\ UNCHANGED last
    /\ UNCHANGED <<tasks, now, seen, text, keywords>>

\* delete_task, lines 297-299: DELETE by id and COMMIT.  A row that is
\* gone by now gives a warning only.
delete_commit(w) ==
    /\ pc[w] = "delete_commit"
    /\ tasks' = [i \in DOMAIN tasks \ {local[w].id} |-> tasks[i]]
    /\ last' = [endpoint |-> "delete_task", status_code |-> 200,
                id |-> local[w].id, detail |-> "deleted"]
    /\ pc' = [pc EXCEPT ![w] = "idle"]
    /\ local' = [local EXCEPT ![w] = NoLocals]
    /\ seen' = Observe(tasks')
    /\ UNCHANGED <<now, text, keywords>>

default_suggestions ==
    <<<<"W","e","e","k","l","y"," ","P","l","a","n","n","i","n","g"," ",
        "S","e","s","s","i","o","n">>,
      <<"P","r","o","j","e","c","t"," ","S","t","a","t","u","s"," ",
        "R","e","v","i","e","w">>,
      <<"T","e","a","m"," ","M","e","e","t","i","n","g"," ",
        "P","r","e","p","a","r","a","t","i","o","n">>>>

\* SmartResponse without the fallback.
SmartResponseNoFallback(suggestions) == suggestions

\* get_smart_suggestions, lines 312-327: what the endpoint answers for the
\* list the engine returned.
SmartResponse(suggestions) ==
    IF suggestions = <<>> THEN default_suggestions ELSE suggestions

\* get_smart_suggestions up to line 130: the query of the titles.
suggest_query_titles(w) ==
    /\ pc[w] = "idle"
    /\ \E ts \in {SelectColumn(tasks, "title", o) :
                      o \in QueryOrders(DOMAIN tasks)} :
          local' = [local EXCEPT ![w] =
                       [endpoint |-> "get_smart_suggestions",
                        all_task_titles |-> ts]]
    /\ pc' = [pc EXCEPT ![w] = "suggest_titles_read"]
    /\ seen' = [seen EXCEPT ![w] = {View(tasks)}]
    /\ UNCHANGED <<tasks, now, last, text, keywords>>

\* The log entry of a finished suggestion call: the locals of
\* generate_suggestions at its return, whether line 141 ran, the store
\* states of the call, and the response of the endpoint.
SuggestionLog(w, r, queried) ==
    [endpoint |-> "get_smart_suggestions", status_code |-> 200,
     all_task_titles |-> local[w].all_task_titles,
     descriptions_queried |-> queried,
     all_keywords |-> r.all_keywords,
     top_keywords |-> r.top_keywords,
     made |-> r.made,
     suggestions |-> r.suggestions,
     seen |-> seen[w] \cup {View(tasks)},
     response |-> SmartResponse(r.suggestions)]

\* get_smart_suggestions from line 133 on: the early return, or the query
\* of the descriptions, the analysis and the answer.
suggest_finish(w) ==
    /\ pc[w] = "suggest_titles_read"
    /\ IF ShortCircuit(local[w].all_task_titles)
       THEN LET r == generate_suggestions(local[w].all_task_titles, <<>>)
            IN  last' = SuggestionLog(w, r, FALSE)
       ELSE \E ds \in {SelectColumn(tasks, "description", o) :
                          o \in QueryOrders(DOMAIN tasks)} :
               LET r == generate_suggestions(local[w].all_task_titles, ds)
               IN  last' = SuggestionLog(w, r, TRUE)
    /\ pc' = [pc EXCEPT ![w] = "idle"]
    /\ local' = [local EXCEPT ![w] = NoLocals]
    /\ seen' = [seen EXCEPT ![w] = {}]
    /\ UNCHANGED <<tasks, now, text, keywords>>

\* Time passes.
Tick ==
    /\ now < MaxTime
    /\ now' = now + 1
    /\ UNCHANGED <<tasks, pc, local, seen, last, text, keywords>>

(***************************************************************************)
(* The service: the store is empty at first, the processes are idle.       *)
(***************************************************************************)
Init ==
    /\ tasks = NoRows
    /\ now = 0
    /\ pc = [w \in Workers |-> "idle"]
    /\ local = [w \in Workers |-> NoLocals]
    /\ seen = [w \in Workers |-> {}]
    /\ last = [endpoint |-> "none", status_code |-> 0]
    /\ text = <<>>
    /\ keywords = None

Next ==
    \/ Tick
    \/ \E w \in Workers : RequestValidationError(w)
    \/ \E w \in Workers, task \in CreateBodies : create_task(w, task)
    \/ \E w \in Workers : create_refresh(w)
    \/ \E w \in Workers, task_id \in 1..MaxTasks, task_update \in UpdateBodies :
          update_task(w, task_id, task_update)
    \/ \E w \in Workers : update_commit(w)
    \/ \E w \in Workers : update_refresh(w)
    \/ \E w \in Workers, task_id \in 1..MaxTasks : delete_task(w, task_id)
    \/ \E w \in Workers : delete_commit(w)
    \/ \E w \in Workers : suggest_query_titles(w)
    \/ \E w \in Workers : suggest_finish(w)

Spec == Init /\ [][Next]_vars

(***************************************************************************)
(* One process answers suggestion requests while another one creates       *)
(* tasks.                                                                  *)
(***************************************************************************)
NextRace ==
    \/ Tick
    \/ suggest_query_titles(1)
    \/ suggest_finish(1)
    \/ \E task \in CreateBodies : create_task(2, task)
    \/ create_refresh(2)

SpecRace == Init /\ [][NextRace]_vars

(***************************************************************************)
(* The suggestion endpoint on a store that holds up to MaxRows tasks, or   *)
(* the three tasks of the budget example.                                  *)
(***************************************************************************)
Row(title, description, due_date, status) ==
    [title |-> Some(title), description |-> description,
     due_date |-> due_date, status |-> Some(status),
     creation_date |-> 0, modified_date |-> 0]

StoresOf(rows, n) == UNION {[1..k -> rows] : k \in 0..n}

\* The stores of up to n rows, one for each choice of rows whatever the
\* order they were inserted in: the order a query gives them in is chosen
\* by QueryOrders.
StoresUpToOrder(rows, n) ==
    UNION {{[i \in 1..k |-> rows[f[i]]] :
               f \in {g \in [1..k -> DOMAIN rows] :
                         \A i \in 1..(k - 1) : g[i] <= g[i + 1]}} :
           k \in 0..n}

EngineTitles ==
    <<TitleBudgetReport, TitleBudgetNumbers, TitleStopWords, TitleLongS>>

EngineDescriptions == <<None, Some(DescPlan), Some(DescFollowUp)>>

EngineRows ==
    [n \in 1..(Len(EngineTitles) * Len(EngineDescriptions)) |->
        Row(EngineTitles[((n - 1) \div Len(EngineDescriptions)) + 1],
            EngineDescriptions[((n - 1) % Len(EngineDescriptions)) + 1],
            None, PENDING)]

BudgetStore ==
    <<Row(TitleBudgetReport, None, None, PENDING),
      Row(TitleBudgetReport, None, None, PENDING),
      Row(TitleBudgetNumbers, None, None, PENDING)>>

InitOn(stores) ==
    /\ tasks \in stores
    /\ now = 0
    /\ pc = [w \in Workers |-> "idle"]
    /\ local = [w \in Workers |-> NoLocals]
    /\ seen = [w \in Workers |-> {}]
    /\ last = [endpoint |-> "none", status_code |-> 0]
    /\ text = <<>>
    /\ keywords = None

InitEngine == InitOn(StoresUpToOrder(EngineRows, MaxRows) \cup {BudgetStore})

NextEngine ==
    \/ suggest_query_titles(1)
    \/ suggest_finish(1)

SpecEngine == InitEngine /\ [][NextEngine]_vars

(***************************************************************************)
(* One update_task request on a store that holds up to MaxRows tasks,      *)
(* while another process deletes a task.                                   *)
(***************************************************************************)
UpdateRows ==
    {Row(TitleBudgetReport, None, None, PENDING),
     Row(TitleStopWords, Some(DescPlan), Some(0), COMPLETED)}

InitUpdate == InitOn(StoresOf(UpdateRows, MaxRows))

NoRequestYet == last.endpoint = "none"

NextUpdate ==
    \/ Tick
    \/ NoRequestYet /\ RequestValidationError(1)
    \/ \E task_id \in 1..(MaxRows + 1), task_update \in AllUpdateBodies :
          NoRequestYet /\ update_task(1, task_id, task_update)
    \/ update_commit(1)
    \/ update_refresh(1)
    \/ \E task_id \in 1..MaxRows : NoRequestYet /\ delete_task(2, task_id)
    \/ delete_commit(2)

SpecUpdate == InitUpdate /\ [][NextUpdate]_vars

(***************************************************************************)
(* extract_keywords on every text of up to MaxLen code points of           *)
(* ExtractAlphabet, and on the texts above.                                *)
(***************************************************************************)
ExtractAlphabet == {"t", "h", "e", "T", " ", "\f", "-", "_", "3"}

TextsUpTo(n) == UNION {[1..k -> ExtractAlphabet] : k \in 0..n}

\* The texts of up to n words of ExtractWords, a space between two words:
\* a word can come several times in a text.
ExtractWords ==
    {<<"b","u","d","g","e","t">>, <<"B","u","d","g","e","t",",">>,
     <<"p","l","a","n">>, <<"t","h","e">>, <<"i","t">>}

WordTextsUpTo(n) ==
    {join(<<" ">>, words) : words \in UNION {[1..k -> ExtractWords] : k \in 1..n}}

ExampleTexts ==
    {TitleBudgetReport, TitleBudgetNumbers, TitleStopWords, TitleLongS,
     DescPlan, DescFollowUp, TextRepeated}

InitExtract ==
    /\ text \in TextsUpTo(MaxLen) \cup WordTextsUpTo(MaxWords) \cup ExampleTexts
    /\ keywords = None
    /\ tasks = NoRows
    /\ now = 0
    /\ pc = [w \in Workers |-> "idle"]
    /\ local = [w \in Workers |-> NoLocals]
    /\ seen = [w \in Workers |-> {}]
    /\ last = [endpoint |-> "none", status_code |-> 0]

ExtractCall ==
    /\ keywords = None
    /\ keywords' = Some(extract_keywords(text))
    /\ UNCHANGED <<tasks, now, pc, local, seen, last, text>>

NextExtract == ExtractCall

SpecExtract == InitExtract /\ [][NextExtract]_vars

(***************************************************************************)
(* Properties                                                              *)
(***************************************************************************)
\* The last answered request was a suggestion request.
Suggested == last.endpoint = "get_smart_suggestions"

Min(a, b) == IF a < b THEN a ELSE b

CountOf(kws, k) == Cardinality({i \in 1..Len(kws) : kws[i] = k})

FirstOf(kws, k) == CHOOSE i \in 1..Len(kws) : kws[i] = k /\ \A j \in 1..(i - 1) : kws[j] # k

\* a is ranked ahead of b: more occurrences, or as many and an earlier
\* first occurrence.
Ahead(kws, a, b) ==
    \/ CountOf(kws, a) > CountOf(kws, b)
    \/ CountOf(kws, a) = CountOf(kws, b) /\ FirstOf(kws, a) < FirstOf(kws, b)

RankOf(kws, k) == 1 + Cardinality({j \in Range(kws) : Ahead(kws, j, k)})

FormattedDistinct(top) ==
    LET fk == [k \in 1..Len(top) |-> formatted_keyword(top[k])]
    IN  \A j, k \in 1..Len(top) : j # k => fk[j] # fk[k]

TitleOf(top, k, t) == format(suggestion_templates[t], formatted_keyword(top[k]))

\* C1: all titles in the list one call of generate_suggestions returns are
\* pairwise distinct.
C1_NoDuplicateTitles ==
    Suggested =>
        \A i, j \in 1..Len(last.suggestions) :
            i # j => last.suggestions[i] # last.suggestions[j]

\* A call in which two ranked keywords have the same formatted form, so
\* that the duplicate test had titles to refuse.
C1_Witness ==
    /\ Suggested
    /\ last.suggestions # <<>>
    /\ ~FormattedDistinct(last.top_keywords)

\* C2: no ranked keyword contributes more than 3 suggestions, there are at
\* most 5 ranked keywords, and the result has at most 15 entries.
C2_QuotaBound ==
    Suggested =>
        /\ Len(last.top_keywords) <= 5
        /\ Len(last.made) = Len(last.top_keywords)
        /\ \A k \in 1..Len(last.made) : last.made[k] <= 3
        /\ Len(last.suggestions) <= 15
        /\ Len(last.suggestions) <= 3 * Len(last.top_keywords)

\* A call that returns 15 suggestions.
C2_Witness == Suggested /\ Len(last.suggestions) = 15

\* C3: the ranked keywords are the 5 most frequent distinct keywords of the
\* combined sequence (all of them when there are fewer), in descending
\* order of count, equal counts in the order of first occurrence.
C3_RankedKeywords ==
    Suggested =>
        LET kws == last.all_keywords
            top == last.top_keywords
        IN  /\ Len(top) = Min(5, Cardinality(Range(kws)))
            /\ \A i \in 1..Len(top) :
                  top[i] \in Range(kws) /\ RankOf(kws, top[i]) = i

\* A call with more than 5 distinct keywords where the fifth and the sixth
\* have the same count, so that the first occurrence decides which is used.
C3_Witness ==
    /\ Suggested
    /\ Len(last.top_keywords) = 5
    /\ \E k \in Range(last.all_keywords) :
          /\ RankOf(last.all_keywords, k) = 6
          /\ CountOf(last.all_keywords, k)
                 = CountOf(last.all_keywords, last.top_keywords[5])

\* The result for the ranked keywords 1..k: for each keyword in turn, its
\* first 3 template instances, in template order, that are not in the
\* result already.
RECURSIVE ExpectedUpTo(_, _)
ExpectedUpTo(top, k) ==
    IF k = 0 THEN <<>>
    ELSE LET prev == ExpectedUpTo(top, k - 1)
             all == [t \in 1..Len(suggestion_templates) |-> TitleOf(top, k, t)]
             IsFresh(x) == x \notin Range(prev)
             fresh == SelectSeq(all, IsFresh)
         IN  prev \o SubSeq(fresh, 1, Min(3, Len(fresh)))

\* C4: the result is ordered by ranked keyword first and by template order
\* second, each keyword giving its first not yet produced template
\* instances until 3 are emitted; for the titles "Prepare budget report",
\* "Prepare budget report", "Review budget numbers" and no descriptions it
\* starts with "Follow-up on Budget", "Finalize Budget", "Plan next steps
\* for Budget".
C4_KeywordThenTemplateOrder ==
    Suggested =>
        /\ last.suggestions
               = ExpectedUpTo(last.top_keywords, Len(last.top_keywords))
        /\ tasks = BudgetStore =>
              SubSeq(last.suggestions, 1, 3)
                  = <<<<"F","o","l","l","o","w","-","u","p"," ","o","n"," ",
                        "B","u","d","g","e","t">>,
                      <<"F","i","n","a","l","i","z","e"," ",
                        "B","u","d","g","e","t">>,
                      <<"P","l","a","n"," ","n","e","x","t"," ",
                        "s","t","e","p","s"," ","f","o","r"," ",
                        "B","u","d","g","e","t">>>>

\* The call on the store of the budget example.
C4_Witness ==
    /\ Suggested
    /\ tasks = BudgetStore
    /\ Len(last.suggestions) > 3

\* The results generate_suggestions has on the store state S alone, for
\* the orders the rows can come in.
ResultsOn(S) ==
    {generate_suggestions(ts, ds).suggestions :
        ts \in {SelectColumn(S, "title", o) : o \in QueryOrders(DOMAIN S)},
        ds \in {SelectColumn(S, "description", o) : o \in QueryOrders(DOMAIN S)}}

\* C5: with writers running beside a suggestion call, the list the call
\* returns is the list of one single store state reached between its start
\* and its return.
C5_SingleStoreState ==
    Suggested => \E S \in last.seen : last.suggestions \in ResultsOn(S)

\* No text of the store yields a keyword.
NoKeywordText ==
    \A i \in DOMAIN tasks :
        /\ extract_keywords(tasks[i].title[1]) = <<>>
        /\ tasks[i].description # None
               => extract_keywords(tasks[i].description[1]) = <<>>

\* C6: the endpoint answers the three default suggestions, in their order,
\* when the store has no task or no text yields a keyword, and the list of
\* the engine in every other store state; its answer is never empty.
C6_DefaultFallback ==
    Suggested =>
        /\ NoKeywordText =>
              last.response
                  = <<<<"W","e","e","k","l","y"," ","P","l","a","n","n","i","n","g",
                        " ","S","e","s","s","i","o","n">>,
                      <<"P","r","o","j","e","c","t"," ","S","t","a","t","u","s",
                        " ","R","e","v","i","e","w">>,
                      <<"T","e","a","m"," ","M","e","e","t","i","n","g"," ",
                        "P","r","e","p","a","r","a","t","i","o","n">>>>
        /\ ~NoKeywordText =>
              last.response = last.suggestions /\ last.suggestions # <<>>
        /\ last.response # <<>>

\* A store with tasks, none of which has a keyword, answered by the
\* defaults.
C6_Witness ==
    /\ Suggested
    /\ DOMAIN tasks # {}
    /\ NoKeywordText
    /\ Len(last.response) = 3

\* C7: when the query of the titles gives no row, generate_suggestions
\* returns the empty list and does not query the descriptions.
C7_EmptyTitlesShortCircuit ==
    (Suggested /\ last.all_task_titles = <<>>) =>
        /\ last.suggestions = <<>>
        /\ ~last.descriptions_queried

\* A call that found no title and returned while the store holds a
\* description with keywords.
C7_Witness ==
    /\ Suggested
    /\ last.all_task_titles = <<>>
    /\ \E i \in DOMAIN tasks :
          /\ tasks[i].description # None
          /\ extract_keywords(tasks[i].description[1]) # <<>>

\* The tokens of a text: the maximal runs of word characters of the
\* lowercased text, by the position they start at.
TokenStarts(t) ==
    {i \in 1..Len(t) : IsWord(t[i]) /\ (i = 1 \/ ~IsWord(t[i - 1]))}

TokenEnd(t, i) ==
    CHOOSE j \in i..Len(t) :
        /\ \A m \in i..j : IsWord(t[m])
        /\ j = Len(t) \/ ~IsWord(t[j + 1])

TokenAt(t, i) == SubSeq(t, i, TokenEnd(t, i))

ExpectedKeywords(t) ==
    LET low == lower(t)
        kept == {i \in TokenStarts(low) :
                    /\ Len(TokenAt(low, i)) > 2
                    /\ TokenAt(low, i) \notin stop_words}
    IN  [n \in 1..Cardinality(kept) |->
            TokenAt(low, CHOOSE i \in kept :
                             Cardinality({j \in kept : j < i}) = n - 1)]

\* C8: extract_keywords returns the tokens of the lowercased text that are
\* longer than 2 and not among the 17 stop words, in their order and with
\* their repetitions; it returns nothing for the empty text and for "the
\* and has had a an it", and budget, plan, budget, plan, budget for "Budget
\* plan: budget, the plan; BUDGET!".
C8_ExtractKeywords ==
    keywords # None =>
        /\ keywords[1] = ExpectedKeywords(text)
        /\ Cardinality(stop_words) = 17
        /\ text \in {<<>>, TitleStopWords} => keywords[1] = <<>>
        /\ text = TextRepeated =>
              keywords[1] = <<<<"b","u","d","g","e","t">>, <<"p","l","a","n">>,
                              <<"b","u","d","g","e","t">>, <<"p","l","a","n">>,
                              <<"b","u","d","g","e","t">>>>

\* The extraction from "Budget plan: budget, the plan; BUDGET!", a text
\* that holds the keyword budget three times and the keyword plan twice.
C8_Witness ==
    /\ keywords # None
    /\ text = TextRepeated
    /\ Len(keywords[1]) = 5
    /\ keywords[1][1] = keywords[1][3]
    /\ Cardinality(Range(keywords[1])) = 2

\* C9, the step that commits an update: the other tasks stay as they are,
\* the fields the request leaves out, the id and the creation date of the
\* task stay as they are, and title and status of every stored task stay
\* non-null.
UpdateCommitFrame ==
    \A w \in Workers :
        (pc[w] = "update_commit" /\ pc'[w] # "update_commit") =>
            LET id == local[w].id
            IN  /\ DOMAIN tasks' = DOMAIN tasks
                /\ \A i \in DOMAIN tasks \ {id} : tasks'[i] = tasks[i]
                /\ id \in DOMAIN tasks =>
                      \A f \in (UpdateFields \ local[w].fields_set)
                                   \cup {"creation_date"} :
                          tasks'[id][f] = tasks[id][f]
                /\ \A i \in DOMAIN tasks' :
                      tasks'[i].title # None /\ tasks'[i].status # None

\* C9, the step that looks the task up: the handler goes on to the commit
\* only for an id of the store, and otherwise answers 404 "Task not found"
\* and leaves the store as it is.
UpdateLookup ==
    /\ \A w \in Workers :
          (pc[w] = "idle" /\ pc'[w] = "update_commit") =>
              /\ local'[w].id \in DOMAIN tasks
              /\ tasks' = tasks
    /\ ((\A w \in Workers : pc[w] \notin {"update_commit", "update_refresh"})
           /\ last' # last /\ last'.endpoint = "update_task") =>
          /\ last'.status_code = 404
          /\ last'.detail = "Task not found"
          /\ last'.id \notin DOMAIN tasks
          /\ tasks' = tasks

\* C9, the step that refreshes the task and answers: the store stays as
\* it is.
UpdateRefreshFrame ==
    \A w \in Workers :
        (pc[w] = "update_refresh" /\ pc'[w] = "idle") => tasks' = tasks

\* C9: update_task changes only the fields the request provides; the other
\* fields, the id, the creation date and every other task are unchanged and
\* the stored task stays valid also when a field is given as null; on an
\* id that does not exist it answers 404 and the store is unchanged.
C9_UpdateFrame ==
    [][UpdateCommitFrame /\ UpdateRefreshFrame /\ UpdateLookup]_vars

\* An UPDATE that went through, after time has passed, on a store of two
\* tasks.
C9_Witness ==
    /\ last.endpoint = "update_task"
    /\ last.status_code = 200
    /\ last.detail = "UPDATE"
    /\ last.id \in DOMAIN tasks
    /\ Cardinality(DOMAIN tasks) = 2
    /\ tasks[last.id].modified_date > tasks[last.id].creation_date

\* What C10 concludes about one call.
ThreePerKeyword ==
    /\ \A k \in 1..Len(last.made) : last.made[k] = 3
    /\ LET first == {TitleOf(last.top_keywords, k, t) :
                         k \in 1..Len(last.top_keywords), t \in 1..3}
           later == {TitleOf(last.top_keywords, k, t) :
                         k \in 1..Len(last.top_keywords), t \in 4..6}
       IN  \A i \in 1..Len(last.suggestions) :
               last.suggestions[i] \in first /\ last.suggestions[i] \notin later
    /\ Len(last.suggestions)
           = 3 * Min(5, Cardinality(Range(last.all_keywords)))

\* C10 as stated: distinct ranked keywords have distinct formatted forms,
\* the duplicate test never refuses a title, every ranked keyword gives
\* exactly 3 suggestions from the first three templates, and the result
\* has 3 x min(5, number of distinct keywords) entries.
C10_AlwaysThreePerKeyword ==
    Suggested => FormattedDistinct(last.top_keywords) /\ ThreePerKeyword

\* C10 as amended: no keyword holds a hyphen, a space or another non-word
\* character; every ranked keyword gives at most 3 suggestions and the
\* result has at most 3 x min(5, number of distinct keywords) entries; and
\* when the formatted forms of the ranked keywords are pairwise distinct,
\* every ranked keyword gives exactly 3 suggestions from the first three
\* templates and the result has exactly that many entries.
C10_ThreePerKeywordIfDistinct ==
    Suggested =>
        /\ \A i \in 1..Len(last.all_keywords) :
              \A j \in 1..Len(last.all_keywords[i]) :
                  /\ IsWord(last.all_keywords[i][j])
                  /\ last.all_keywords[i][j] \notin {"-", " "}
        /\ \A k \in 1..Len(last.made) : last.made[k] <= 3
        /\ Len(last.suggestions)
               <= 3 * Min(5, Cardinality(Range(last.all_keywords)))
        /\ FormattedDistinct(last.top_keywords) => ThreePerKeyword

\* A call on a store with the hyphenated text "Follow-up review for Q3"
\* whose 5 ranked keywords have distinct formatted forms.
C10_Witness ==
    /\ Suggested
    /\ \E i \in DOMAIN tasks : tasks[i].description = Some(DescFollowUp)
    /\ Len(last.top_keywords) = 5
    /\ FormattedDistinct(last.top_keywords)
    /\ ThreePerKeyword

====
